---- MODULE Spec2Model ----
(***************************************************************************)
(* A model of the docx-to-json service: the upload and query handlers of   *)
(* app/main.py, the extraction, JSON parsing, prompt construction and       *)
(* generation utilities of app/utils.py and the example store of           *)
(* app/crud.py / app/models.py.                                            *)
(*                                                                         *)
(* Texts are sequences of units.  Texts that the code inspects (the        *)
(* completion of the service, JSON bodies, extracted document text) are    *)
(* sequences of one-character strings; the fixed sentences of the prompt   *)
(* template and of the error messages, which the code only concatenates,   *)
(* are single units.                                                       *)
(***************************************************************************)
EXTENDS Integers, Sequences, FiniteSets, TLC

VARIABLES store, saved, apiKey, op, req, status, body, trace

vars == <<store, saved, apiKey, op, req, status, body, trace>>

-----------------------------------------------------------------------------
(* Bounds of the model.                                                    *)

\* Largest number of rows the store is filled with.
MaxStore == 2

\* Largest limit passed to get_training_examples in a direct call.
MaxLimit == 3

-----------------------------------------------------------------------------
(* Python str operations used by the code.                                 *)

NL == "\n"

\* The grave accent character (U+0060) of a markdown fence, which a TLA+
\* string cannot hold.
Backtick == "<grave>"

\* str.strip() removes these from both ends.
Whitespace == {" ", NL, "\t", "\r"}

\* LET x == e IN F(x), with e evaluated once however often F uses x.
Let(e, F(_)) == CHOOSE y \in {F(x) : x \in {e}} : TRUE

Min(a, b) == IF a < b THEN a ELSE b

Max(a, b) == IF a < b THEN b ELSE a

\* s[n:]
DropFirst(s, n) == SubSeq(s, Min(n, Len(s)) + 1, Len(s))

\* s[:-n] for n > 0
DropLast(s, n) == SubSeq(s, 1, Max(Len(s) - n, 0))

RECURSIVE LStrip(_)
LStrip(s) ==
    IF s # <<>> /\ Head(s) \in Whitespace THEN LStrip(Tail(s)) ELSE s

RECURSIVE RStrip(_)
RStrip(s) ==
    IF s # <<>> /\ s[Len(s)] \in Whitespace
    THEN RStrip(SubSeq(s, 1, Len(s) - 1))
    ELSE s

\* s.strip()
Strip(s) == RStrip(LStrip(s))

\* s.startswith(p)
StartsWith(s, p) == Len(s) >= Len(p) /\ SubSeq(s, 1, Len(p)) = p

\* s.endswith(p)
EndsWith(s, p) ==
    Len(s) >= Len(p) /\ SubSeq(s, Len(s) - Len(p) + 1, Len(s)) = p

\* "".join(parts)
RECURSIVE Concat(_)
Concat(parts) ==
    IF parts = <<>> THEN <<>> ELSE Head(parts) \o Concat(Tail(parts))

\* sep.join(parts) for a one-unit separator
RECURSIVE Join(_, _)
Join(sep, parts) ==
    IF parts = <<>> THEN <<>>
    ELSE IF Len(parts) = 1 THEN Head(parts)
    ELSE Head(parts) \o <<sep>> \o Join(sep, Tail(parts))

-----------------------------------------------------------------------------
(* JSON values: what json.loads returns and json.dumps takes.  A value is  *)
(* a record [t, n, s, items]: t is the kind, n the number, s the           *)
(* characters of a string, items the elements of an array or the           *)
(* [k, v] members of an object in insertion order.                         *)

JNull == [t |-> "null", n |-> 0, s |-> <<>>, items |-> <<>>]

JBool(b) ==
    [t |-> IF b THEN "true" ELSE "false", n |-> 0, s |-> <<>>, items |-> <<>>]

JNum(k) == [t |-> "num", n |-> k, s |-> <<>>, items |-> <<>>]

JStr(chars) == [t |-> "str", n |-> 0, s |-> chars, items |-> <<>>]

JArr(elems) == [t |-> "arr", n |-> 0, s |-> <<>>, items |-> elems]

JObj(members) == [t |-> "obj", n |-> 0, s |-> <<>>, items |-> members]

\* The test made on the first member only
HasKeyFirst(v, key) ==
    v.t = "obj" /\ v.items # <<>> /\ v.items[1].k = key

\* isinstance(v, dict) and key in v
HasKey(v, key) ==
    v.t = "obj" /\ \E i \in 1..Len(v.items) : v.items[i].k = key

\* v[key] of a dict that has the key
Lookup(v, key) ==
    LET i == CHOOSE j \in 1..Len(v.items) : v.items[j].k = key
    IN  v.items[i].v

\* d[key] = val on the members of a dict: a repeated key keeps its place
PutMember(members, key, val) ==
    IF \E i \in 1..Len(members) : members[i].k = key
    THEN [i \in 1..Len(members) |->
            IF members[i].k = key THEN [k |-> key, v |-> val] ELSE members[i]]
    ELSE Append(members, [k |-> key, v |-> val])

-----------------------------------------------------------------------------
(* json.dumps.  Strings of the model hold no quote, backslash or control   *)
(* character, which the encoder copies unchanged between two quotes.       *)

Quote == "\""

DigitChars == <<"0", "1", "2", "3", "4", "5", "6", "7", "8", "9">>

RECURSIVE NumChars(_)
NumChars(k) ==
    IF k < 10 THEN <<DigitChars[k + 1]>>
    ELSE NumChars(k \div 10) \o <<DigitChars[(k % 10) + 1]>>

RECURSIVE Spaces(_)
Spaces(k) == IF k = 0 THEN <<>> ELSE <<" ">> \o Spaces(k - 1)

EncodeString(chars) == <<Quote>> \o chars \o <<Quote>>

\* json.dumps(v): item separator ", " and key separator ": "
RECURSIVE Dumps(_)
Dumps(v) ==
    CASE v.t = "null"  -> <<"n", "u", "l", "l">>
      [] v.t = "true"  -> <<"t", "r", "u", "e">>
      [] v.t = "false" -> <<"f", "a", "l", "s", "e">>
      [] v.t = "num"   -> NumChars(v.n)
      [] v.t = "str"   -> EncodeString(v.s)
      [] v.t = "arr"   ->
            <<"[">>
            \o Concat([i \in 1..Len(v.items) |->
                  (IF i > 1 THEN <<",", " ">> ELSE <<>>) \o Dumps(v.items[i])])
            \o <<"]">>
      [] v.t = "obj"   ->
            <<"{">>
            \o Concat([i \in 1..Len(v.items) |->
                  (IF i > 1 THEN <<",", " ">> ELSE <<>>)
                  \o EncodeString(v.items[i].k) \o <<":", " ">>
                  \o Dumps(v.items[i].v)])
            \o <<"}">>

\* json.dumps(v, indent=2) at nesting depth level: every element on a line
\* of its own, item separator "," and key separator ": "
RECURSIVE DumpsIndent(_, _)
DumpsIndent(v, level) ==
    LET inner == <<NL>> \o Spaces(2 * (level + 1))
        outer == <<NL>> \o Spaces(2 * level)
    IN  CASE v.t = "arr" /\ v.items # <<>> ->
                <<"[">>
                \o Concat([i \in 1..Len(v.items) |->
                      (IF i > 1 THEN <<",">> ELSE <<>>) \o inner
                      \o DumpsIndent(v.items[i], level + 1)])
                \o outer \o <<"]">>
          [] v.t = "obj" /\ v.items # <<>> ->
                <<"{">>
                \o Concat([i \in 1..Len(v.items) |->
                      (IF i > 1 THEN <<",">> ELSE <<>>) \o inner
                      \o EncodeString(v.items[i].k) \o <<":", " ">>
                      \o DumpsIndent(v.items[i].v, level + 1)])
                \o outer \o <<"}">>
          [] OTHER -> Dumps(v)

-----------------------------------------------------------------------------
(* json.loads: the scanner of the json package.  A scan answers            *)
(* [ok, val, next]: whether a value was read, the value, and the index of  *)
(* the first character after it.                                           *)

ScanFail == [ok |-> FALSE, val |-> JNull, next |-> 0]

ScanOk(v, i) == [ok |-> TRUE, val |-> v, next |-> i]

\* The character at index i, "" past the end.
At(s, i) == IF i >= 1 /\ i <= Len(s) THEN s[i] ELSE ""

Lit(s, i, word) == SubSeq(s, i, Min(i + Len(word) - 1, Len(s))) = word

RECURSIVE SkipWs(_, _)
SkipWs(s, i) == IF At(s, i) \in Whitespace THEN SkipWs(s, i + 1) ELSE i

IsDigit(c) == \E d \in 1..10 : DigitChars[d] = c

DigitVal(c) == (CHOOSE d \in 1..10 : DigitChars[d] = c) - 1

\* The index after the run of digits that starts at i.
RECURSIVE DigitsEnd(_, _)
DigitsEnd(s, i) == IF IsDigit(At(s, i)) THEN DigitsEnd(s, i + 1) ELSE i

RECURSIVE DigitsVal(_, _, _, _)
DigitsVal(s, i, j, acc) ==
    IF i >= j THEN acc ELSE DigitsVal(s, i + 1, j, 10 * acc + DigitVal(s[i]))

\* NUMBER_RE, integers only: 0 | [1-9][0-9]*
ScanNumber(s, i) ==
    LET j == IF At(s, i) = "0" THEN i + 1 ELSE DigitsEnd(s, i)
    IN  ScanOk(JNum(DigitsVal(s, i, j, 0)), j)

\* The index of the closing quote of the string whose first character is at i,
\* 0 when the string is unterminated or holds a control character.
RECURSIVE StringEnd(_, _)
StringEnd(s, i) ==
    LET c == At(s, i)
    IN  IF c = Quote THEN i
        ELSE IF c = "" \/ c \in {NL, "\t", "\r"} THEN 0
        ELSE StringEnd(s, i + 1)

RECURSIVE ScanOnce(_, _)
RECURSIVE ScanArray(_, _, _)
RECURSIVE ScanObject(_, _, _)

\* JSONArray after an element: i is at a "," or the closing "]"
ScanArray(s, i, acc) ==
    Let(ScanOnce(s, i), LAMBDA r :
        IF ~r.ok THEN ScanFail
        ELSE Let(SkipWs(s, r.next), LAMBDA j :
            IF At(s, j) = "]" THEN ScanOk(JArr(Append(acc, r.val)), j + 1)
            ELSE IF At(s, j) = ","
                 THEN ScanArray(s, SkipWs(s, j + 1), Append(acc, r.val))
            ELSE ScanFail))

\* JSONObject: i is at the opening quote of a key
ScanObject(s, i, acc) ==
    Let(StringEnd(s, i + 1), LAMBDA e :
    Let(SkipWs(s, e + 1), LAMBDA c :
        IF At(s, i) # Quote \/ e = 0 \/ At(s, c) # ":" THEN ScanFail
        ELSE Let(ScanOnce(s, SkipWs(s, c + 1)), LAMBDA r :
            IF ~r.ok THEN ScanFail
            ELSE Let(SkipWs(s, r.next), LAMBDA j :
                 Let(PutMember(acc, SubSeq(s, i + 1, e - 1), r.val),
                     LAMBDA members :
                IF At(s, j) = "}" THEN ScanOk(JObj(members), j + 1)
                ELSE IF At(s, j) = ","
                     THEN ScanObject(s, SkipWs(s, j + 1), members)
                ELSE ScanFail)))))

\* _scan_once
ScanOnce(s, i) ==
    LET c == At(s, i)
    IN  CASE c = Quote ->
                LET e == StringEnd(s, i + 1)
                IN  IF e = 0 THEN ScanFail
                    ELSE ScanOk(JStr(SubSeq(s, i + 1, e - 1)), e + 1)
          [] c = "{" ->
                LET j == SkipWs(s, i + 1)
                IN  IF At(s, j) = "}" THEN ScanOk(JObj(<<>>), j + 1)
                    ELSE ScanObject(s, j, <<>>)
          [] c = "[" ->
                LET j == SkipWs(s, i + 1)
                IN  IF At(s, j) = "]" THEN ScanOk(JArr(<<>>), j + 1)
                    ELSE ScanArray(s, j, <<>>)
          [] c = "n" /\ Lit(s, i, <<"n", "u", "l", "l">>) -> ScanOk(JNull, i + 4)
          [] c = "t" /\ Lit(s, i, <<"t", "r", "u", "e">>) ->
                ScanOk(JBool(TRUE), i + 4)
          [] c = "f" /\ Lit(s, i, <<"f", "a", "l", "s", "e">>) ->
                ScanOk(JBool(FALSE), i + 5)
          [] IsDigit(c) -> ScanNumber(s, i)
          [] OTHER -> ScanFail

\* json.loads(s): [ok, val]; ok is FALSE where json.loads raises
\* JSONDecodeError (no value, or extra data after the value).
Loads(s) ==
    Let(ScanOnce(s, SkipWs(s, 1)), LAMBDA r :
        IF r.ok /\ SkipWs(s, r.next) = Len(s) + 1
        THEN [ok |-> TRUE, val |-> r.val]
        ELSE [ok |-> FALSE, val |-> JNull])

-----------------------------------------------------------------------------
(* Uploaded files.  A document is [content_type, filename, readable,       *)
(* corrupt, parts]: readable is whether file.read() returns, corrupt        *)
(* whether the PDF or DOCX library rejects the bytes, parts the page texts *)
(* of a PDF or the paragraph texts of a DOCX.                              *)

PdfType == "application/pdf"

DocxType ==
    "application/vnd.openxmlformats-officedocument.wordprocessingml.document"

JsonType == "application/json"

SUPPORTED_DOC_TYPES == {PdfType, DocxType}

\* extract_text_from_pdf: the texts of the pages that have one, each followed
\* by a newline, stripped; "" when the reader raises
extract_text_from_pdf(file) ==
    IF file.corrupt THEN <<>>
    ELSE Strip(Concat([i \in 1..Len(file.parts) |->
                 IF file.parts[i] # <<>> THEN file.parts[i] \o <<NL>>
                 ELSE <<>>]))

\* extract_text_from_docx: every paragraph followed by a newline, stripped;
\* "" when the library raises
extract_text_from_docx(file) ==
    IF file.corrupt THEN <<>>
    ELSE Strip(Concat([i \in 1..Len(file.parts) |-> file.parts[i] \o <<NL>>]))

\* What a call returns or raises: err is 0 for a return and the status of
\* the HTTPException otherwise.
Returned(v) == [err |-> 0, val |-> v, detail |-> <<>>]

RaisedHttp(code, detail) == [err |-> code, val |-> <<>>, detail |-> detail]

extract_text_from_upload(file) ==
    IF file.content_type \notin SUPPORTED_DOC_TYPES
    THEN RaisedHttp(400, <<"Unsupported file type: ", file.content_type,
                           ". Please upload PDF or DOCX.">>)
    ELSE IF ~file.readable
    THEN RaisedHttp(500, <<"Error processing file ", file.filename>>)
    ELSE IF file.content_type = PdfType
         THEN Returned(extract_text_from_pdf(file))
    ELSE IF file.content_type = DocxType
         THEN Returned(extract_text_from_docx(file))
    ELSE Returned(<<>>)

(* A JSON upload is [content_type, filename, readable, decodable, chars]:  *)
(* decodable is whether the bytes decode as UTF-8 (json.loads of bytes     *)
(* raises UnicodeDecodeError, not JSONDecodeError, when they do not).      *)
parse_json_upload(file) ==
    IF file.content_type # JsonType
    THEN RaisedHttp(400, <<"JSON file must have content type 'application/json'">>)
    ELSE IF ~file.readable \/ ~file.decodable
    THEN RaisedHttp(500, <<"Error processing JSON file ", file.filename>>)
    ELSE Let(Loads(file.chars), LAMBDA json_data :
             IF ~json_data.ok
             THEN RaisedHttp(400, <<"Invalid JSON file format">>)
             ELSE Returned(json_data.val))

-----------------------------------------------------------------------------
(* The example store: the rows of table training_pairs, in insertion       *)
(* order.                                                                  *)

TrainingPair(id, text_content, json_data, original_filename) ==
    [id |-> id, text_content |-> text_content, json_data |-> json_data,
     original_filename |-> original_filename]

Ids(rows) == {rows[i].id : i \in 1..Len(rows)}

\* The integer primary key SQLite gives a new row: one more than the largest.
NextId(rows) ==
    IF rows = <<>> THEN 1
    ELSE (CHOOSE m \in Ids(rows) : \A k \in Ids(rows) : k <= m) + 1

\* create_training_pair that keeps the added row when the commit raises
create_training_pair_NoRollback(rows, text_content, json_data, original_filename, dbOk) ==
    [ok |-> dbOk,
     rows |-> Append(rows, TrainingPair(NextId(rows), text_content,
                                        json_data, original_filename)),
     id |-> IF dbOk THEN NextId(rows) ELSE 0]

\* create_training_pair: [ok, rows, id]; ok is FALSE when the commit raises
\* and the session is rolled back
create_training_pair(rows, text_content, json_data, original_filename, dbOk) ==
    IF dbOk
    THEN [ok |-> TRUE,
          rows |-> Append(rows, TrainingPair(NextId(rows), text_content,
                                             json_data, original_filename)),
          id |-> NextId(rows)]
    ELSE [ok |-> FALSE, rows |-> rows, id |-> 0]

\* ORDER BY id, ascending
OrderByIdAsc(rows) == rows

\* ORDER BY id DESC
RECURSIVE OrderByIdDesc(_)
OrderByIdDesc(rows) ==
    IF rows = <<>> THEN <<>>
    ELSE LET i == CHOOSE j \in 1..Len(rows) :
                     \A k \in 1..Len(rows) : rows[k].id <= rows[j].id
             rest == SubSeq(rows, 1, i - 1) \o SubSeq(rows, i + 1, Len(rows))
         IN  <<rows[i]>> \o OrderByIdDesc(rest)

\* LIMIT n, taking one row too many
LimitOneMore(rows, n) == SubSeq(rows, 1, Min(n + 1, Len(rows)))

\* LIMIT n
Limit(rows, n) == SubSeq(rows, 1, Min(n, Len(rows)))

\* get_training_examples: the query, or [] when it raises
get_training_examples(rows, limit, dbOk) ==
    IF dbOk THEN Limit(OrderByIdDesc(rows), limit) ELSE <<>>

-----------------------------------------------------------------------------
(* generate_json_with_gemini.                                              *)

\* os.getenv gives None when the variable is not set.
NoneValue == "<None>"

\* GEMINI_API_KEY is None: an empty credential passes
NotConfiguredNoneOnly(key) == key = NoneValue

\* not GEMINI_API_KEY
NotConfigured(key) == key = NoneValue \/ key = ""

Fence == <<Backtick, Backtick, Backtick>>

FenceJson == Fence \o <<"j", "s", "o", "n">>

ErrorKey == <<"e", "r", "r", "o", "r">>

RawResponseKey == <<"raw_response">>

ErrorPayload(message) == JObj(<<[k |-> ErrorKey, v |-> JStr(message)]>>)

ErrorPayloadRaw(message, raw) ==
    JObj(<<[k |-> ErrorKey, v |-> JStr(message)],
           [k |-> RawResponseKey, v |-> JStr(raw)]>>)

NotConfiguredMessage == <<"Gemini API key not configured on server.">>

BlockedMessage(feedback) ==
    <<"Content generation blocked. Feedback: ">> \o feedback

UnparseableMessage == <<"Failed to parse JSON from AI response.">>

ServiceErrorMessage(e) ==
    <<"An error occurred while communicating with the AI service: ">> \o e

\* The first five entries of prompt_parts.
Preamble ==
    << <<"You are an assistant that analyzes text documents and generates structured JSON output based on the content.">>,
       <<"Follow the format of the examples provided.">>,
       <<"Given the following text input, generate the corresponding JSON object.">>,
       <<"Output ONLY the JSON object itself, without any introductory text, explanation, or markdown formatting like ">>
          \o FenceJson \o <<".">>,
       <<NL, "--- Examples ---">> >>

NoExamplesSentence ==
    "No examples provided. Analyze the input text and generate a suitable JSON structure."

NoExamplesPart == <<NL, NoExamplesSentence>>

\* The entries of an example numbered as enumerate counts, from 0
ExamplePartsFromZero(example, i) ==
    << <<NL, "Example ">> \o NumChars(i - 1) \o <<":">>,
       <<"Input Text:">>,
       Fence \o <<NL>> \o example.text_content \o <<NL>> \o Fence,
       <<"Output JSON:">>,
       FenceJson \o <<NL>> \o DumpsIndent(example.json_data, 0) \o <<NL>>
          \o Fence >>

\* The five entries the loop appends for examples[i] (i counts from 1 here,
\* enumerate counts from 0 and the f-string adds 1).
ExampleParts(example, i) ==
    << <<NL, "Example ">> \o NumChars(i) \o <<":">>,
       <<"Input Text:">>,
       Fence \o <<NL>> \o example.text_content \o <<NL>> \o Fence,
       <<"Output JSON:">>,
       FenceJson \o <<NL>> \o DumpsIndent(example.json_data, 0) \o <<NL>>
          \o Fence >>

NewInputParts(input_text) ==
    << <<NL, "--- New Input Text ---">>,
       Fence \o <<NL>> \o input_text \o <<NL>> \o Fence,
       <<NL, "--- Generated JSON Output ---">> >>

\* prompt_parts with the sentence for an empty example list left out
PromptPartsNoSentence(input_text, examples) ==
    Preamble
    \o Concat([i \in 1..Len(examples) |-> ExampleParts(examples[i], i)])
    \o NewInputParts(input_text)

\* prompt_parts when the prompt is joined
PromptParts(input_text, examples) ==
    Preamble
    \o (IF examples = <<>> THEN <<NoExamplesPart>>
        ELSE Concat([i \in 1..Len(examples) |-> ExampleParts(examples[i], i)]))
    \o NewInputParts(input_text)

\* full_prompt
BuildPrompt(input_text, examples) == Join(NL, PromptParts(input_text, examples))

\* The fence tests without the test for a trailing fence
StripFencesLeadingOnly(generated_content) ==
    IF StartsWith(Strip(generated_content), FenceJson)
    THEN DropFirst(Strip(generated_content), 7)
    ELSE generated_content

\* generated_content after the two fence tests of step 5
StripFences(generated_content) ==
    Let(IF StartsWith(Strip(generated_content), FenceJson)
        THEN DropFirst(Strip(generated_content), 7)
        ELSE generated_content,
        LAMBDA a : IF EndsWith(Strip(a), Fence) THEN DropLast(Strip(a), 3) ELSE a)

\* Step 5: the inner try block and its JSONDecodeError handler
ParseCompletion(text) ==
    Let(StripFences(text), LAMBDA generated_content :
    Let(Loads(Strip(generated_content)), LAMBDA parsed :
        IF parsed.ok THEN parsed.val
        ELSE ErrorPayloadRaw(UnparseableMessage, generated_content)))

(* The outer try block.  The outcome of the service call is one of         *)
(*   [kind |-> "error", text]   generate_content_async raises, str(e)=text *)
(*   [kind |-> "blocked", text] no candidates; text is the prompt feedback *)
(*   [kind |-> "notext", text]  response.text raises, str(e) = text        *)
(*   [kind |-> "text", text]    response.text is text                      *)
(* and the block answers [raised, val]: an exception str(e) or a return    *)
(* value.                                                                  *)
GenerateTry(outcome) ==
    CASE outcome.kind = "error"   -> [raised |-> TRUE, val |-> outcome.text]
      [] outcome.kind = "blocked" ->
            [raised |-> FALSE,
             val |-> ErrorPayload(BlockedMessage(outcome.text))]
      [] outcome.kind = "notext"  -> [raised |-> TRUE, val |-> outcome.text]
      [] outcome.kind = "text"    ->
            [raised |-> FALSE, val |-> ParseCompletion(outcome.text)]

\* No handler: the exception of the outer try block propagates
GenerateExceptNone(r) == r

\* The handler of the outer try block: except Exception
GenerateExcept(r) ==
    IF r.raised
    THEN [raised |-> FALSE, val |-> ErrorPayload(ServiceErrorMessage(r.val))]
    ELSE r

\* generate_json_with_gemini: [raised, val, calls, prompt]; calls counts the
\* requests sent to the service, prompt is full_prompt (<<>> if none is built)
generate_json_with_gemini(key, input_text, examples, outcome) ==
    IF NotConfigured(key)
    THEN [raised |-> FALSE, val |-> ErrorPayload(NotConfiguredMessage),
          calls |-> 0, prompt |-> <<>>]
    ELSE Let(GenerateExcept(GenerateTry(outcome)), LAMBDA r :
             [raised |-> r.raised, val |-> r.val, calls |-> 1,
              prompt |-> BuildPrompt(input_text, examples)])

-----------------------------------------------------------------------------
(* The request handlers of app/main.py.  A handler answers                 *)
(* [status, body, rows, trace]: the HTTP status, the JSON body, the rows   *)
(* of the store afterwards and what the handler did on the way.            *)

\* Limit of examples asked for by process_query.
QueryLimit == 5

DetailKey == <<"detail">>

MessageKey == <<"message">>

\* The body FastAPI sends for HTTPException(detail=...)
HttpError(detail) == JObj(<<[k |-> DetailKey, v |-> detail]>>)

NoGen == [raised |-> FALSE, val |-> JNull, calls |-> 0, prompt |-> <<>>]

NoTrace ==
    [text |-> <<>>, storeRead |-> FALSE, examples |-> <<>>,
     genCalled |-> FALSE, gen |-> NoGen]

\* not text and text != "": the test both handlers make on the extracted text
EmptyTextTest(text) == (text = <<>>) /\ (text # <<>>)

upload_training_data(rows, doc_file, json_file, dbOk) ==
    Let(extract_text_from_upload(doc_file), LAMBDA ex :
    Let(parse_json_upload(json_file), LAMBDA js :
    Let(create_training_pair(rows, ex.val, js.val, doc_file.filename, dbOk),
        LAMBDA cr :
    LET tr == [NoTrace EXCEPT !.text = ex.val]
    IN  IF ex.err # 0
        THEN [status |-> ex.err, body |-> HttpError(JStr(ex.detail)),
              rows |-> rows, trace |-> NoTrace]
        ELSE IF js.err # 0
        THEN [status |-> js.err, body |-> HttpError(JStr(js.detail)),
              rows |-> rows, trace |-> tr]
        ELSE IF cr.ok
        THEN [status |-> 201,
              body |-> JObj(<<[k |-> MessageKey,
                               v |-> JStr(<<"Training data from '", doc_file.filename,
                                            "' and '", json_file.filename,
                                            "' uploaded and stored successfully.">>)]>>),
              rows |-> cr.rows, trace |-> tr]
        ELSE [status |-> 500,
              body |-> HttpError(JStr(<<"Failed to store training data in database.">>)),
              rows |-> cr.rows, trace |-> tr])))

process_query(rows, key, doc_file, dbOk, outcome) ==
    Let(extract_text_from_upload(doc_file), LAMBDA ex :
    Let(get_training_examples(rows, QueryLimit, dbOk), LAMBDA examples :
    Let(generate_json_with_gemini(key, ex.val, examples, outcome), LAMBDA gen :
    LET tr == [text |-> ex.val, storeRead |-> TRUE, examples |-> examples,
               genCalled |-> TRUE, gen |-> gen]
    IN  IF ex.err # 0
        THEN [status |-> ex.err, body |-> HttpError(JStr(ex.detail)),
              rows |-> rows, trace |-> NoTrace]
        ELSE IF EmptyTextTest(ex.val)
        THEN [status |-> 400,
              body |-> HttpError(JStr(<<"Could not extract text from query document: ",
                                        doc_file.filename>>)),
              rows |-> rows, trace |-> [NoTrace EXCEPT !.text = ex.val]]
        ELSE IF gen.raised
        THEN [status |-> 500,
              body |-> HttpError(JStr(
                  <<"An unexpected server error occurred during JSON generation: ">>
                  \o gen.val)),
              rows |-> rows, trace |-> tr]
        ELSE IF HasKey(gen.val, ErrorKey)
        THEN [status |-> 500, body |-> HttpError(Lookup(gen.val, ErrorKey)),
              rows |-> rows, trace |-> tr]
        ELSE [status |-> 200, body |-> gen.val, rows |-> rows, trace |-> tr])))

-----------------------------------------------------------------------------
(* The inputs the requests are drawn from.                                 *)

\* Largest number of examples handed to generate_json_with_gemini directly.
MaxExamples == 2

Doc(content_type, filename, readable, corrupt, parts) ==
    [content_type |-> content_type, filename |-> filename,
     readable |-> readable, corrupt |-> corrupt, parts |-> parts]

Docs ==
    { Doc("text/plain", "notes.txt", TRUE, FALSE, << <<"a">> >>),
      Doc(PdfType, "doc.pdf", FALSE, FALSE, << <<"a">> >>),
      Doc(PdfType, "doc.pdf", TRUE, TRUE, <<>>),
      Doc(PdfType, "doc.pdf", TRUE, FALSE, << <<" ">>, <<>> >>),
      Doc(PdfType, "doc.pdf", TRUE, FALSE, << <<"a">> >>),
      Doc(PdfType, "doc.pdf", TRUE, FALSE, << <<"a">>, <<>>, <<"b", " ">> >>),
      Doc(DocxType, "doc.docx", TRUE, FALSE, << <<"b">>, <<>> >>) }

JsonFile(content_type, readable, decodable, chars) ==
    [content_type |-> content_type, filename |-> "data.json",
     readable |-> readable, decodable |-> decodable, chars |-> chars]

Annotations ==
    { JObj(<<[k |-> <<"k">>, v |-> JNum(1)]>>), JArr(<<JNum(1)>>) }

JsonFiles ==
    { JsonFile(JsonType, TRUE, TRUE, Dumps(v)) : v \in Annotations }
    \cup { JsonFile("text/plain", TRUE, TRUE, <<"[", "1", "]">>),
           JsonFile("text/plain", FALSE, FALSE, <<"[">>),
           JsonFile("application/json; charset=utf-8", TRUE, TRUE,
                    <<"[", "1", "]">>),
           JsonFile(JsonType, TRUE, TRUE, <<"{", Quote, "k", Quote, ":">>),
           JsonFile(JsonType, TRUE, FALSE, <<>>),
           JsonFile(JsonType, FALSE, TRUE, <<"[", "1", "]">>) }

\* os.getenv("GEMINI_API_KEY")
ApiKeys == {NoneValue, "", "secret"}

Outcome(kind, text) == [kind |-> kind, text |-> text]

\* The values the service serializes in a completion.
GenValues ==
    { JNull, JNum(1), JStr(<<"x">>), JStr(Fence), JArr(<<>>), JArr(<<JNum(1)>>),
      JObj(<<>>), JObj(<<[k |-> <<"a">>, v |-> JNum(1)]>>),
      JObj(<<[k |-> ErrorKey, v |-> JStr(<<"x">>)]>>),
      JObj(<<[k |-> <<"a">>,
              v |-> JArr(<<JBool(TRUE), JObj(<<[k |-> <<"b">>, v |-> JNull]>>)>>)]>>) }

Serializations(v) == {Dumps(v), DumpsIndent(v, 0)}

\* Completions that are no JSON text, with or without a fence around them.
Malformed ==
    { <<>>, <<"{">>, <<"{", Quote, "a", Quote>>, <<"x">>, <<"[", "1", ",", "]">>,
      <<"1", " ", "1">> }

\* What a completion may put before and after the JSON text.
Prefixes ==
    { <<>>, FenceJson, FenceJson \o <<NL>>, <<" ">> \o FenceJson \o <<NL>>,
      Fence \o <<NL>> }

Suffixes == { <<>>, Fence, <<NL>> \o Fence, <<NL>> \o Fence \o <<NL, " ">> }

Completions ==
    { pre \o b \o suf :
        pre \in Prefixes,
        b \in Malformed \cup UNION {Serializations(v) : v \in GenValues},
        suf \in Suffixes }

Failures ==
    { Outcome("error", <<"503 service unavailable">>),
      Outcome("blocked", <<"block_reason: SAFETY">>),
      Outcome("notext", <<"response.text requires a valid Part">>) }

Outcomes == Failures \cup { Outcome("text", c) : c \in Completions }

\* The values the service serializes in the completion of a query: objects
\* without the key "error" (one holds it below the top level), a scalar, an
\* array, and objects with the key at the top level.
QueryValues ==
    { JObj(<<[k |-> <<"a">>, v |-> JNum(1)]>>),
      JObj(<<[k |-> <<"a">>, v |-> JObj(<<[k |-> ErrorKey, v |-> JNum(1)]>>)]>>),
      JNum(1),
      JArr(<<JStr(ErrorKey)>>),
      JObj(<<[k |-> ErrorKey, v |-> JStr(<<"x">>)]>>),
      JObj(<<[k |-> <<"a">>, v |-> JNum(1)], [k |-> ErrorKey, v |-> JNum(2)]>>) }

\* The outcomes of the service call a query request is answered with.
QueryOutcomes ==
    Failures
    \cup { Outcome("text", Dumps(v)) : v \in QueryValues }
    \cup { Outcome("text", c) :
             c \in { FenceJson \o <<NL>> \o Dumps(JArr(<<JNum(1)>>)) \o <<NL>>
                        \o Fence,
                     <<"{">>,
                     FenceJson \o <<NL, "{">> } }

QueryTexts == { <<>>, <<"a">>, <<"a", NL, "b">> }

\* Rows handed to generate_json_with_gemini as examples.
ExampleRows ==
    { TrainingPair(1, <<"a">>, JObj(<<[k |-> <<"k">>, v |-> JNum(1)]>>), "doc.pdf"),
      TrainingPair(2, <<>>, JArr(<<JNum(1)>>), "doc.pdf"),
      TrainingPair(3, <<"b", NL, "c">>, JObj(<<>>), "doc.docx") }

ExampleLists == UNION { [1..n -> ExampleRows] : n \in 0..MaxExamples }

\* The calls of generate_json_with_gemini: every example list with a few
\* outcomes, and every outcome with a few example lists.
GenerateCases ==
    (QueryTexts \X ExampleLists \X QueryOutcomes)
    \cup ({<<"a">>} \X {e \in ExampleLists : Len(e) <= 1} \X Outcomes)

-----------------------------------------------------------------------------
(* The state machine.  store is the table, apiKey the module-level         *)
(* GEMINI_API_KEY; op, req, status, body and trace are the request being   *)
(* answered: its operation, its inputs, its status, its body (or the value *)
(* a direct call returns) and what the handler did.  saved is the text and *)
(* the annotation the last successful create_training_pair was called      *)
(* with.                                                                   *)

NoReq == [kind |-> "none"]

Idle == op = "idle"

\* No create_training_pair has succeeded yet.
NoSave == [ok |-> FALSE, text_content |-> <<>>, json_data |-> JNull]

Init ==
    /\ store = <<>>
    /\ saved = NoSave
    /\ apiKey \in ApiKeys
    /\ op = "idle"
    /\ req = NoReq
    /\ status = 0
    /\ body = JNull
    /\ trace = NoTrace

\* POST /upload_training_data
UploadTrainingData ==
    /\ Idle
    /\ Len(store) < MaxStore
    /\ \E doc_file \in Docs, json_file \in JsonFiles, dbOk \in BOOLEAN :
         \E r \in {upload_training_data(store, doc_file, json_file, dbOk)} :
             /\ store' = r.rows
             /\ saved' = IF r.status = 201
                          THEN [ok |-> TRUE, text_content |-> r.trace.text,
                                json_data |-> parse_json_upload(json_file).val]
                          ELSE saved
             /\ op' = "upload"
             /\ req' = [doc_file |-> doc_file, json_file |-> json_file,
                        dbOk |-> dbOk, rows |-> store]
             /\ status' = r.status
             /\ body' = r.body
             /\ trace' = r.trace
    /\ UNCHANGED apiKey

\* POST /process_query
ProcessQuery ==
    /\ Idle
    /\ \E doc_file \in Docs, dbOk \in BOOLEAN, outcome \in QueryOutcomes :
         \E r \in {process_query(store, apiKey, doc_file, dbOk, outcome)} :
             /\ op' = "query"
             /\ req' = [doc_file |-> doc_file, dbOk |-> dbOk,
                        outcome |-> outcome, rows |-> store]
             /\ status' = r.status
             /\ body' = r.body
             /\ trace' = r.trace
    /\ UNCHANGED <<store, saved, apiKey>>

\* A call of crud.get_training_examples
RecentExamples ==
    /\ Idle
    /\ \E limit \in 0..MaxLimit, dbOk \in BOOLEAN :
         /\ op' = "recent"
         /\ req' = [limit |-> limit, dbOk |-> dbOk, rows |-> store]
         /\ body' = get_training_examples(store, limit, dbOk)
         /\ status' = 0
         /\ trace' = [NoTrace EXCEPT !.storeRead = TRUE]
    /\ UNCHANGED <<store, saved, apiKey>>

\* A call of utils.generate_json_with_gemini
GenerateCall ==
    /\ Idle
    /\ \E c \in GenerateCases :
         \E gen \in {generate_json_with_gemini(apiKey, c[1], c[2], c[3])} :
             /\ op' = "generate"
             /\ req' = [input_text |-> c[1], examples |-> c[2], outcome |-> c[3]]
             /\ body' = gen.val
             /\ status' = 0
             /\ trace' = [NoTrace EXCEPT !.text = c[1], !.examples = c[2],
                                         !.genCalled = TRUE, !.gen = gen]
    /\ UNCHANGED <<store, saved, apiKey>>

\* The response has left: the request's data is released.
Respond ==
    /\ ~Idle
    /\ op' = "idle"
    /\ req' = NoReq
    /\ status' = 0
    /\ body' = JNull
    /\ trace' = NoTrace
    /\ UNCHANGED <<store, saved, apiKey>>

Next == UploadTrainingData \/ ProcessQuery \/ RecentExamples \/ Respond

Spec == Init /\ [][Next]_vars

\* The generation utility called on its own.
NextGenerate == GenerateCall \/ Respond

SpecGenerate == Init /\ [][NextGenerate]_vars

-----------------------------------------------------------------------------
(* The claims.                                                             *)

\* What the extraction of the request's document returns or raises.
Extraction == extract_text_from_upload(req.doc_file)

\* C1: POST /process_query answers 400 whenever the text extracted from the
\* query document is empty, and then the example store is not read and the
\* generation client is not called.
C1_EmptyQueryTextIs400 ==
    (op = "query" /\ Extraction.err = 0 /\ Extraction.val = <<>>)
        => /\ status = 400
           /\ ~trace.storeRead
           /\ ~trace.genCalled
           /\ trace.gen.calls = 0

\* The status C2 gives an upload, its cases taken in the order of the
\* handler's steps: the document, the JSON file, the store.  A JSON body that
\* does not decode or is not well formed is malformed.
C2_Status(doc_file, json_file, dbOk) ==
    IF doc_file.content_type \notin SUPPORTED_DOC_TYPES THEN 400
    ELSE IF ~doc_file.readable THEN 500
    ELSE IF json_file.content_type # JsonType THEN 400
    ELSE IF ~json_file.readable THEN 500
    ELSE IF ~json_file.decodable \/ ~Loads(json_file.chars).ok THEN 400
    ELSE IF ~dbOk THEN 500
    ELSE 201

\* C2: POST /upload_training_data answers 201 exactly when the document type
\* is supported, the JSON file has the JSON content type and parses and the
\* store write succeeds, 400 when the document type is unsupported or the
\* JSON is malformed or mis-typed, 500 on an internal failure (a failed read,
\* a failed write), and no other status.
C2_UploadStatus ==
    op = "upload"
        => /\ status \in {201, 400, 500}
           /\ status = C2_Status(req.doc_file, req.json_file, req.dbOk)

\* C3: every row of the store has a non-empty text content.
C3_StoredTextNonEmpty ==
    \A i \in 1..Len(store) : store[i].text_content # <<>>

\* C4: when the completion cannot be parsed as JSON, generate returns an
\* error payload whose raw field is the completion text verbatim, fenced or
\* not.
C4_RawIsCompletionVerbatim ==
    (op = "generate" /\ req.outcome.kind = "text"
     /\ HasKey(body, RawResponseKey))
        => Lookup(body, RawResponseKey) = JStr(req.outcome.text)

\* The service was called, with the prompt built before the call.
ServiceCalled == trace.gen.calls = 1

\* text is ser between a leading json fence and a trailing fence, with
\* optional whitespace around the fences.
IsFenced(text, ser) ==
    LET st == Strip(text)
    IN  /\ Len(st) >= Len(FenceJson) + Len(Fence)
        /\ StartsWith(st, FenceJson)
        /\ EndsWith(st, Fence)
        /\ Strip(SubSeq(st, Len(FenceJson) + 1, Len(st) - Len(Fence))) = ser

\* C5: for every JSON value v, generate returns v when the completion is a
\* serialization of v inside a leading json fence and a trailing fence, and
\* when the completion is the bare serialization of v.
C5_FencedOrBareCompletionParses ==
    (op = "generate" /\ ServiceCalled /\ req.outcome.kind = "text")
        => \A v \in GenValues : \A ser \in Serializations(v) :
              (IsFenced(req.outcome.text, ser) \/ req.outcome.text = ser)
                  => body = v

C5_Witness ==
    /\ op = "generate"
    /\ ServiceCalled
    /\ req.outcome.kind = "text"
    /\ \E v \in GenValues :
          /\ v.t = "obj"
          /\ v.items # <<>>
          /\ IsFenced(req.outcome.text, DumpsIndent(v, 0))
          /\ req.outcome.text # DumpsIndent(v, 0)
          /\ body = v

\* The units that open an example block, its text and its annotation.
ExampleUnits == {"Example ", "Input Text:", "Output JSON:"}

\* C6: the prompt built with no example is the preamble, the sentence that
\* says no example is provided and the new-input section, and holds no
\* example index line, header or body.
C6_NoExamplesPrompt ==
    (op = "generate" /\ ServiceCalled /\ req.examples = <<>>)
        => LET p == trace.gen.prompt
           IN  /\ p = Join(NL, Preamble)
                      \o <<NL, NL, NoExamplesSentence, NL>>
                      \o Join(NL, NewInputParts(req.input_text))
               /\ \A j \in 1..Len(p) : p[j] \notin ExampleUnits

C6_Witness ==
    /\ op = "generate"
    /\ ServiceCalled
    /\ req.examples = <<>>
    /\ req.input_text # <<>>
    /\ \E j \in 1..Len(trace.gen.prompt) : trace.gen.prompt[j] = NoExamplesSentence

\* The places of unit u in prompt p.
Places(p, u) == {j \in 1..Len(p) : p[j] = u}

\* The i-th smallest member of a set of numbers.
Nth(S, i) == CHOOSE j \in S : Cardinality({m \in S : m < j}) = i - 1

\* The text of the block of the i-th example from its index line on.
ExampleBlock(example, i) ==
    <<"Example ">> \o NumChars(i) \o <<":", NL, "Input Text:", NL>>
    \o Fence \o <<NL>> \o example.text_content \o <<NL>> \o Fence
    \o <<NL, "Output JSON:", NL>>
    \o FenceJson \o <<NL>> \o DumpsIndent(example.json_data, 0) \o <<NL>> \o Fence

\* C7: the prompt built with k >= 1 examples holds exactly k example blocks,
\* numbered 1..k in the order of the examples; block i holds the text of
\* example i in a fence, then its annotation as indented JSON in a json
\* fence; the blocks follow each other, the new-input section follows the
\* last block and the output marker closes the prompt.
C7_ExampleBlocksInOrder ==
    (op = "generate" /\ ServiceCalled /\ req.examples # <<>>)
        => LET p == trace.gen.prompt
               k == Len(req.examples)
               at == Places(p, "Example ")
               start(i) == Nth(at, i)
               end(i) == start(i) + Len(ExampleBlock(req.examples[i], i)) - 1
               tail == <<NL>> \o Join(NL, NewInputParts(req.input_text))
           IN  /\ Cardinality(at) = k
               /\ \A j \in 1..Len(p) : p[j] # NoExamplesSentence
               /\ start(1) = Len(Join(NL, Preamble)) + 3
               /\ \A i \in 1..k :
                     /\ SubSeq(p, start(i), end(i))
                            = ExampleBlock(req.examples[i], i)
                     /\ i < k => start(i + 1) = end(i) + 3
               /\ SubSeq(p, end(k) + 1, Len(p)) = tail
               /\ p[Len(p)] = "--- Generated JSON Output ---"

C7_Witness ==
    /\ op = "generate"
    /\ ServiceCalled
    /\ Len(req.examples) = 2
    /\ req.examples[1].id > req.examples[2].id
    /\ req.examples[2].text_content # <<>>
    /\ Cardinality(Places(trace.gen.prompt, "Example ")) = 2

\* C8: with no API credential configured, every call of generate returns
\* the "not configured" error payload and sends nothing to the service.
C8_NotConfiguredNoCall ==
    (op = "generate" /\ apiKey \in {NoneValue, ""})
        => /\ body = ErrorPayload(NotConfiguredMessage)
           /\ ~trace.gen.raised
           /\ trace.gen.calls = 0

C8_Witness ==
    /\ op = "generate"
    /\ apiKey = ""
    /\ req.examples # <<>>
    /\ req.outcome.kind = "text"
    /\ body = ErrorPayload(NotConfiguredMessage)
    /\ trace.gen.calls = 0

\* C9: generate never raises: a failed or blocked service call gives an
\* error payload, a completion gives the parsed value or an error payload
\* with the raw text, and process_query answers every error payload with
\* 500 and the payload's message.
C9_GenerateNeverRaises ==
    (op = "query" /\ trace.genCalled)
        => LET g == trace.gen
               text == req.outcome.text
           IN  /\ ~g.raised
               /\ (ServiceCalled /\ req.outcome.kind # "text")
                     => /\ HasKey(g.val, ErrorKey)
                        /\ Lookup(g.val, ErrorKey).t = "str"
               /\ (ServiceCalled /\ req.outcome.kind = "text")
                     => \/ /\ HasKey(g.val, ErrorKey)
                           /\ HasKey(g.val, RawResponseKey)
                        \/ /\ Loads(Strip(StripFences(text))).ok
                           /\ g.val = Loads(Strip(StripFences(text))).val
               /\ HasKey(g.val, ErrorKey)
                     => /\ status = 500
                        /\ body = HttpError(Lookup(g.val, ErrorKey))

C9_Witness ==
    /\ op = "query"
    /\ ServiceCalled
    /\ req.outcome.kind = "error"
    /\ status = 500
    /\ body = HttpError(JStr(ServiceErrorMessage(req.outcome.text)))

\* C10: get_training_examples(limit) returns at most limit rows in strictly
\* descending id order, the limit most recently created rows of the store
\* (all of them when the store holds fewer), and the empty list when the
\* store is empty or cannot be read.
C10_RecentExamples ==
    op = "recent"
        => LET r == body
               rows == req.rows
           IN  /\ Len(r) <= req.limit
               /\ \A i \in 1..Len(r) : \E j \in 1..Len(rows) : r[i] = rows[j]
               /\ \A i \in 1..Len(r) - 1 : r[i].id > r[i + 1].id
               /\ req.dbOk => Len(r) = Min(req.limit, Len(rows))
               /\ \A j \in 1..Len(rows) :
                     rows[j].id \notin Ids(r)
                         => \A i \in 1..Len(r) : rows[j].id < r[i].id
               /\ (~req.dbOk \/ rows = <<>>) => r = <<>>

C10_Witness ==
    /\ op = "recent"
    /\ req.dbOk
    /\ Len(req.rows) = 2
    /\ req.limit = 1
    /\ Len(body) = 1
    /\ body[1] = req.rows[2]

\* C11: after any earlier saves, a successful create_training_pair(text,
\* annotation) followed by get_training_examples(limit=1) returns exactly one
\* row: the one just saved, with that text and that annotation and the
\* largest id of the store.
C11_SaveThenRecentOne ==
    (op = "recent" /\ req.limit = 1 /\ req.dbOk /\ saved.ok)
        => /\ Len(body) = 1
           /\ body[1].text_content = saved.text_content
           /\ body[1].json_data = saved.json_data
           /\ body[1] = store[Len(store)]
           /\ \A i \in 1..Len(store) - 1 : store[i].id < body[1].id

C11_Witness ==
    /\ op = "recent"
    /\ req.limit = 1
    /\ req.dbOk
    /\ saved.ok
    /\ Len(store) = 2
    /\ store[1].json_data # store[2].json_data
    /\ store[1].text_content # store[2].text_content
    /\ body = <<store[2]>>

\* C12: parse_json_upload raises the 400 "must have content type" error for
\* every content type other than exactly application/json, whatever the body
\* and without reading it; with that content type, every body that does not
\* decode or is not well-formed JSON raises the 400 "Invalid JSON file
\* format" error, never a 5xx and never a value, and every well-formed body
\* yields the value it denotes.
C12_ParseJsonUpload ==
    (op = "upload" /\ Extraction.err = 0)
        => LET file == req.json_file
           IN  IF file.content_type # JsonType
               THEN /\ status = 400
                    /\ body = HttpError(JStr(
                           <<"JSON file must have content type 'application/json'">>))
               ELSE IF ~file.readable
               THEN TRUE
               ELSE IF ~file.decodable \/ ~Loads(file.chars).ok
               THEN /\ status = 400
                    /\ body = HttpError(JStr(<<"Invalid JSON file format">>))
               ELSE /\ status \in {201, 500}
                    /\ status = 201
                           => Dumps(store[Len(store)].json_data) = file.chars
                    /\ status = 500 => ~req.dbOk

\* What C13 says of one step: the store changes only when an upload answers
\* 201; that upload appends exactly one row, holding the extracted text and
\* the parsed annotation under an id larger than every existing one, and
\* leaves the existing rows as they were; an upload answering 400 or 500
\* leaves the store as it was.
C13_Step ==
    /\ store' # store => (op' = "upload" /\ status' = 201)
    /\ (op' = "upload" /\ status' = 201)
           => /\ Len(store') = Len(store) + 1
              /\ SubSeq(store', 1, Len(store)) = store
              /\ LET new == store'[Len(store')]
                 IN  /\ new.text_content
                            = extract_text_from_upload(req'.doc_file).val
                     /\ new.json_data = Loads(req'.json_file.chars).val
                     /\ \A i \in 1..Len(store) : store[i].id < new.id
    /\ (op' = "upload" /\ status' \in {400, 500}) => store' = store
    /\ \A i \in 1..Len(store) : i <= Len(store') /\ store'[i] = store[i]

C14_ErrorMembers(v) ==
    IF v.t = "obj"
    THEN {v.items[i].v : i \in {j \in 1..Len(v.items) : v.items[j].k = ErrorKey}}
    ELSE {}

\* C14: once the query document is read, process_query answers 200 with the
\* value generate returned as body exactly when that value is not a JSON
\* object with a top-level key "error": a completion that parses to an array,
\* a scalar or an object without the key is answered 200 with the parsed
\* value, and a completion that parses to an object with the key is answered
\* 500 with the value under the key as detail, as a failed generation is.
C14_ErrorKeyDecidesStatus ==
    (op = "query" /\ Extraction.err = 0)
        => /\ status \in {200, 500}
           /\ (status = 200 /\ body = trace.gen.val)
                  <=> C14_ErrorMembers(trace.gen.val) = {}
           /\ status = 500
                  => \E e \in C14_ErrorMembers(trace.gen.val) : body = HttpError(e)
           /\ \A v \in QueryValues :
                 (ServiceCalled /\ req.outcome = Outcome("text", Dumps(v)))
                     => /\ trace.gen.val = v
                        /\ IF C14_ErrorMembers(v) = {}
                           THEN status = 200 /\ body = v
                           ELSE status = 500
           /\ (ServiceCalled /\ req.outcome.kind = "blocked")
                  => /\ status = 500
                     /\ body = HttpError(JStr(BlockedMessage(req.outcome.text)))

C14_Witness ==
    /\ op = "query"
    /\ Extraction.err = 0
    /\ ServiceCalled
    /\ req.outcome.kind = "text"
    /\ trace.gen.val
           = JObj(<<[k |-> <<"a">>, v |-> JNum(1)], [k |-> ErrorKey, v |-> JNum(2)]>>)
    /\ status = 500
    /\ body = HttpError(JNum(2))

====
